---- MODULE Spec2Model ----
(***************************************************************************)
(* A model of translate_wav.py: the driver translate_wav (validation,      *)
(* session configuration, start, busy wait, stop, optional file write,     *)
(* return), its four nested callback handlers, and the speech SDK session  *)
(* that invokes the handlers from its own threads.                         *)
(*                                                                         *)
(* Strings that are only compared (paths, language codes, credentials)     *)
(* are TLA+ strings.  Strings whose content matters (recognized and        *)
(* translated texts, file contents) are sequences of characters, with NL   *)
(* the newline character.  Python's None is a distinct value of each kind. *)
(***************************************************************************)
EXTENDS Naturals, Integers, Sequences, FiniteSets, TLC

(* ------------------------------ bounds -------------------------------- *)

\* Longest stream of events (interim or finalized) one session delivers.
MaxEvents == 2

\* Most calls of translate_wav one process makes.
MaxCalls == 2

(* ------------------------------ values -------------------------------- *)

None == "<None>"
NL == "\n"
NoneText == <<"<None>">>
NoObject == [made |-> FALSE]

\* os.getenv results: unset, set to the empty string, set to a value.
KeyValues == {None, "", "key"}
RegionValues == {None, "", "region"}

Paths == {"a.wav", "adir", "missing.wav", "out.txt", "new.txt"}
WavPaths == {"a.wav", "adir", "missing.wav"}
OutputPaths == {None, "", "out.txt", "new.txt", "adir"}
TargetLanguages == {"es", "fr"}
SourceLanguages == {None, "", "en-US"}

\* The file system before the call: a recording, a directory, an output
\* file that already holds text, and two names that do not exist.
OldText == <<"o", "l", "d", NL>>
InitialFiles ==
  [p \in Paths |->
     CASE p = "a.wav" -> [kind |-> "file", data |-> <<"R", "I", "F", "F">>]
       [] p = "adir" -> [kind |-> "dir", data |-> <<>>]
       [] p = "out.txt" -> [kind |-> "file", data |-> OldText]
       [] OTHER -> [kind |-> "absent", data |-> <<>>]]

\* Finalized results the session may deliver to handle_recognized.
RecognizedEvents ==
  { [kind |-> "recognized", reason |-> "TranslatedSpeech", text |-> <<"h", "i">>,
     translations |-> [l \in {"es"} |-> <<"h", "o", "l", "a">>]],
    [kind |-> "recognized", reason |-> "TranslatedSpeech", text |-> NoneText,
     translations |-> [l \in {"es", "fr"} |-> IF l = "es" THEN <<"s", "i">> ELSE <<>>]],
    [kind |-> "recognized", reason |-> "TranslatedSpeech", text |-> <<"y", "e", "s">>,
     translations |-> [l \in {"fr"} |-> <<"o", "u", "i">>]],
    [kind |-> "recognized", reason |-> "RecognizedSpeech", text |-> <<"h", "i">>,
     translations |-> [l \in {} |-> <<>>]],
    [kind |-> "recognized", reason |-> "NoMatch", text |-> NoneText,
     translations |-> [l \in {} |-> <<>>]] }

CancellationReasons == {"Error", "EndOfStream"}

(* ------------------------------ state --------------------------------- *)

VARIABLES
  env,                \* the process environment: [key, region]
  wav_path, target_language, source_language, output_txt,   \* the arguments
  pc,                 \* the driver's position in translate_wav
  error,              \* the exception translate_wav raised, or None
  translation_config, \* the SpeechTranslationConfig, or NoObject
  auto_langs,         \* the AutoDetectSourceLanguageConfig, or NoObject
  audio_config,       \* the AudioConfig, or NoObject
  recognizer,         \* the TranslationRecognizer, or NoObject
  handlers,           \* recognizer signal -> connected handler
  translated_lines, recognized_lines, done,   \* the closure's accumulators
  session,            \* the SDK session: "idle", "running", "stopped"
  honors,             \* the collaborator keeps its event-ordering contract
  pending,            \* events of the stream not delivered yet
  events,             \* finalized and terminal events delivered so far
  calls,              \* the calls translate_wav made to the outside, in order
  files,              \* the file system
  result,             \* translate_wav's return value, or NoObject
  argv,               \* the parsed command line of a script run, or NoObject
  script,             \* the script run: "not_a_script", "not_run", "main", ...
  invocation,         \* how many times translate_wav has been called
  previous            \* what the call before this one returned, or NoObject

args == <<wav_path, target_language, source_language, output_txt>>
config_vars == <<translation_config, auto_langs, audio_config, recognizer, handlers>>
collector_vars == <<translated_lines, recognized_lines, done>>
sdk_vars == <<session, pending, events>>
process == <<argv, script, invocation, previous>>
vars == <<env, args, pc, error, config_vars, collector_vars, sdk_vars, honors,
          calls, files, result, process>>

\* Python truthiness of an optional string: None and "" are falsy.
Truthy(s) == s # None /\ s # ""

\* A caller has just called translate_wav with some arguments.
Init ==
  /\ env \in [key : KeyValues, region : RegionValues]
  /\ wav_path \in WavPaths
  /\ target_language \in TargetLanguages
  /\ source_language \in SourceLanguages
  /\ output_txt \in OutputPaths
  /\ honors \in BOOLEAN
  /\ pc = "getenv"
  /\ error = None
  /\ translation_config = NoObject
  /\ auto_langs = NoObject
  /\ audio_config = NoObject
  /\ recognizer = NoObject
  /\ handlers = [s \in {} |-> None]
  /\ translated_lines = <<>>
  /\ recognized_lines = <<>>
  /\ done = FALSE
  /\ session = "idle"
  /\ pending = 0
  /\ events = <<>>
  /\ calls = <<>>
  /\ files = InitialFiles
  /\ result = NoObject
  /\ argv = NoObject
  /\ script = "not_a_script"
  /\ invocation = 1
  /\ previous = NoObject

(* ------------------------- translate_wav: driver ----------------------- *)

\* CheckCredentials with `and` in place of `or`: it raises only when both
\* credentials are missing.
CheckCredentials_and ==
  /\ pc = "getenv"
  /\ calls' = calls \o <<"getenv", "getenv">>
  /\ IF ~Truthy(env.key) /\ ~Truthy(env.region)
       THEN pc' = "raised" /\ error' = "RuntimeError"
       ELSE pc' = "isfile" /\ error' = error
  /\ UNCHANGED <<env, args, process, config_vars, collector_vars, sdk_vars, honors, files, result>>

\* Lines 21-24: read both credentials, raise RuntimeError unless both are
\* set and non-empty.
CheckCredentials ==
  /\ pc = "getenv"
  /\ calls' = calls \o <<"getenv", "getenv">>
  /\ IF ~Truthy(env.key) \/ ~Truthy(env.region)
       THEN pc' = "raised" /\ error' = "RuntimeError"
       ELSE pc' = "isfile" /\ error' = error
  /\ UNCHANGED <<env, args, process, config_vars, collector_vars, sdk_vars, honors, files, result>>

\* isfile as os.path.exists: a directory passes.
isfile_exists(p) == p \in DOMAIN files /\ files[p].kind # "absent"

\* os.path.isfile: the path names an existing regular file.
isfile(p) == p \in DOMAIN files /\ files[p].kind = "file"

\* Lines 26-27: raise FileNotFoundError unless wav_path is a regular file.
CheckWavFile ==
  /\ pc = "isfile"
  /\ calls' = Append(calls, "isfile")
  /\ IF ~isfile(wav_path)
       THEN pc' = "raised" /\ error' = "FileNotFoundError"
       ELSE pc' = "config" /\ error' = error
  /\ UNCHANGED <<env, args, process, config_vars, collector_vars, sdk_vars, honors, files, result>>

\* Lines 30-33: the translation config holds the two credentials.
CreateTranslationConfig ==
  /\ pc = "config"
  /\ translation_config' =
       [made |-> TRUE, subscription |-> env.key, region |-> env.region,
        speech_recognition_language |-> None, target_languages |-> <<>>]
  /\ calls' = Append(calls, "SpeechTranslationConfig")
  /\ pc' = "source"
  /\ UNCHANGED <<env, args, process, error, auto_langs, audio_config, recognizer, handlers,
                 collector_vars, sdk_vars, honors, files, result>>

\* Line 42: the fixed auto-detect candidate list.
AutoDetectLanguages == <<"en-US", "hi-IN", "mr-IN", "gu-IN", "ta-IN", "te-IN", "bn-IN">>

\* Lines 36-43: a truthy source_language becomes the fixed recognition
\* language; otherwise the auto-detect config is built.
SelectSourceLanguage ==
  /\ pc = "source"
  /\ IF Truthy(source_language)
       THEN /\ translation_config' =
                 [translation_config EXCEPT !.speech_recognition_language = source_language]
            /\ auto_langs' = auto_langs
            /\ calls' = calls
       ELSE /\ auto_langs' = [made |-> TRUE, languages |-> AutoDetectLanguages]
            /\ translation_config' = translation_config
            /\ calls' = Append(calls, "AutoDetectSourceLanguageConfig")
  /\ pc' = "target"
  /\ UNCHANGED <<env, args, process, error, audio_config, recognizer, handlers,
                 collector_vars, sdk_vars, honors, files, result>>

\* AddTargetLanguage that leaves a default target "en" registered as well.
AddTargetLanguage_default ==
  /\ pc = "target"
  /\ translation_config' =
       [translation_config EXCEPT
          !.target_languages = <<"en">> \o Append(@, target_language)]
  /\ pc' = "audio"
  /\ UNCHANGED <<env, args, process, error, auto_langs, audio_config, recognizer, handlers,
                 collector_vars, sdk_vars, honors, calls, files, result>>

\* Line 46: register the target language.
AddTargetLanguage ==
  /\ pc = "target"
  /\ translation_config' =
       [translation_config EXCEPT
          !.target_languages = Append(@, target_language)]
  /\ pc' = "audio"
  /\ UNCHANGED <<env, args, process, error, auto_langs, audio_config, recognizer, handlers,
                 collector_vars, sdk_vars, honors, calls, files, result>>

\* Line 49: bind the audio input to the file.
CreateAudioConfig ==
  /\ pc = "audio"
  /\ audio_config' = [made |-> TRUE, filename |-> wav_path]
  /\ calls' = Append(calls, "AudioConfig")
  /\ pc' = "recognizer"
  /\ UNCHANGED <<env, args, process, error, translation_config, auto_langs, recognizer, handlers,
                 collector_vars, sdk_vars, honors, files, result>>

\* Lines 52-62: the recognizer gets the auto-detect config only on the
\* auto-detect path.
CreateRecognizer ==
  /\ pc = "recognizer"
  /\ recognizer' =
       [made |-> TRUE,
        translation_config |-> translation_config,
        audio_config |-> audio_config,
        auto_detect_source_language_config |->
          IF Truthy(source_language) THEN NoObject ELSE auto_langs]
  /\ calls' = Append(calls, "TranslationRecognizer")
  /\ pc' = "collect"
  /\ UNCHANGED <<env, args, process, error, translation_config, auto_langs, audio_config, handlers,
                 collector_vars, sdk_vars, honors, files, result>>

\* ConnectHandlers with the accumulators and the flag kept at module level:
\* they are not created anew by the call.
ConnectHandlers_module_level ==
  /\ pc = "collect"
  /\ UNCHANGED collector_vars
  /\ handlers' = [s \in {"recognizing", "recognized", "canceled", "session_stopped"} |->
                    CASE s = "recognizing" -> "handle_recognizing"
                      [] s = "recognized" -> "handle_recognized"
                      [] s = "canceled" -> "handle_canceled"
                      [] s = "session_stopped" -> "handle_session_stopped"]
  /\ pc' = "start"
  /\ UNCHANGED <<env, args, process, error, translation_config, auto_langs, audio_config,
                 recognizer, sdk_vars, honors, calls, files, result>>

\* Lines 65-67 and 103-106: fresh accumulators, the flag cleared, the four
\* handlers connected to the recognizer's signals.
ConnectHandlers ==
  /\ pc = "collect"
  /\ translated_lines' = <<>>
  /\ recognized_lines' = <<>>
  /\ done' = FALSE
  /\ handlers' = [s \in {"recognizing", "recognized", "canceled", "session_stopped"} |->
                    CASE s = "recognizing" -> "handle_recognizing"
                      [] s = "recognized" -> "handle_recognized"
                      [] s = "canceled" -> "handle_canceled"
                      [] s = "session_stopped" -> "handle_session_stopped"]
  /\ pc' = "start"
  /\ UNCHANGED <<env, args, process, error, translation_config, auto_langs, audio_config, recognizer,
                 sdk_vars, honors, calls, files, result>>

\* Lines 108-109: start the session; the stream it will deliver holds up to
\* MaxEvents events.
StartRecognition ==
  /\ pc = "start"
  /\ session' = "running"
  /\ pending' \in 0..MaxEvents
  /\ calls' = Append(calls, "start_continuous_recognition")
  /\ pc' = "wait"
  /\ UNCHANGED <<env, args, process, error, config_vars, collector_vars, events, honors, files, result>>

\* WaitLoop that does not test the flag: the loop is left at once.
WaitLoop_nowait ==
  /\ pc = "wait"
  /\ pc' = "stop"
  /\ UNCHANGED <<env, args, process, error, config_vars, collector_vars, sdk_vars, honors,
                 calls, files, result>>

\* WaitLoop that starts recognition again after a cancellation.
WaitLoop_retry ==
  /\ pc = "wait"
  /\ done
  /\ IF events[Len(events)].kind = "canceled" /\ Len(calls) < 12
       THEN /\ calls' = Append(calls, "start_continuous_recognition")
            /\ done' = FALSE
            /\ pc' = "wait"
       ELSE /\ calls' = calls
            /\ done' = done
            /\ pc' = "stop"
  /\ UNCHANGED <<env, args, process, error, config_vars, translated_lines, recognized_lines,
                 sdk_vars, honors, files, result>>

\* WaitLoop with a timeout: it is also left when the stream has run dry.
WaitLoop_timeout ==
  /\ pc = "wait"
  /\ done \/ pending = 0
  /\ pc' = "stop"
  /\ UNCHANGED <<env, args, process, error, config_vars, collector_vars, sdk_vars, honors,
                 calls, files, result>>

\* Lines 110-112: the loop is left once done is read true; an iteration
\* that reads done false changes nothing.
WaitLoop ==
  /\ pc = "wait"
  /\ done
  /\ pc' = "stop"
  /\ UNCHANGED <<env, args, process, error, config_vars, collector_vars, sdk_vars, honors,
                 calls, files, result>>

\* StopRecognition with the stop call forgotten.
StopRecognition_forgotten ==
  /\ pc = "stop"
  /\ pc' = "save"
  /\ UNCHANGED <<env, args, process, error, config_vars, collector_vars, sdk_vars, honors,
                 calls, files, result>>

\* StopRecognition by the asynchronous call whose completion is not awaited:
\* the session is still running when the driver goes on.
StopRecognition_async ==
  /\ pc = "stop"
  /\ calls' = Append(calls, "stop_continuous_recognition")
  /\ pc' = "save"
  /\ UNCHANGED <<env, args, process, error, config_vars, collector_vars, sdk_vars, honors,
                 files, result>>

\* Line 113: the synchronous stop; no callback runs after it.
StopRecognition ==
  /\ pc = "stop"
  /\ session' = "stopped"
  /\ calls' = Append(calls, "stop_continuous_recognition")
  /\ pc' = "save"
  /\ UNCHANGED <<env, args, process, error, config_vars, collector_vars, pending, events, honors,
                 files, result>>

\* join that ends every line with a newline, as writing line by line does.
RECURSIVE join_terminated(_)
join_terminated(lines) ==
  IF lines = <<>> THEN <<>>
  ELSE lines[1] \o <<NL>> \o join_terminated(Tail(lines))

\* "\n".join(lines): the lines with one newline between consecutive ones.
RECURSIVE join(_)
join(lines) ==
  IF lines = <<>> THEN <<>>
  ELSE IF Len(lines) = 1 THEN lines[1]
  ELSE lines[1] \o <<NL>> \o join(Tail(lines))

\* open(path, "w"): fails on a directory, otherwise creates or truncates.
CanOpenForWriting(p) == p \in DOMAIN files /\ files[p].kind # "dir"

\* SaveOutput that falls back to a default file when no path is given.
SaveOutput_default_path ==
  /\ pc = "save"
  /\ LET path == IF Truthy(output_txt) THEN output_txt ELSE "out.txt" IN
       /\ calls' = Append(calls, "open")
       /\ IF CanOpenForWriting(path)
            THEN /\ files' = [files EXCEPT ![path] =
                                [kind |-> "file", data |-> join(translated_lines)]]
                 /\ pc' = "return"
                 /\ error' = error
            ELSE /\ files' = files
                 /\ pc' = "raised"
                 /\ error' = "OSError"
  /\ UNCHANGED <<env, args, process, config_vars, collector_vars, sdk_vars, honors, result>>

\* Lines 116-119: with a truthy output_txt, the file is replaced by the
\* joined lines; open's error propagates.
SaveOutput ==
  /\ pc = "save"
  /\ IF Truthy(output_txt)
       THEN /\ calls' = Append(calls, "open")
            /\ IF CanOpenForWriting(output_txt)
                 THEN /\ files' = [files EXCEPT ![output_txt] =
                                     [kind |-> "file", data |-> join(translated_lines)]]
                      /\ pc' = "return"
                      /\ error' = error
                 ELSE /\ files' = files
                      /\ pc' = "raised"
                      /\ error' = "OSError"
       ELSE /\ calls' = calls
            /\ files' = files
            /\ pc' = "return"
            /\ error' = error
  /\ UNCHANGED <<env, args, process, config_vars, collector_vars, sdk_vars, honors, result>>

\* Line 121: return both lists.
Return ==
  /\ pc = "return"
  /\ result' = [made |-> TRUE, translated_lines |-> translated_lines,
                recognized_lines |-> recognized_lines]
  /\ pc' = "returned"
  /\ UNCHANGED <<env, args, process, error, config_vars, collector_vars, sdk_vars, honors,
                 calls, files>>

Driver ==
  \/ CheckCredentials
  \/ CheckWavFile
  \/ CreateTranslationConfig
  \/ SelectSourceLanguage
  \/ AddTargetLanguage
  \/ CreateAudioConfig
  \/ CreateRecognizer
  \/ ConnectHandlers
  \/ StartRecognition
  \/ WaitLoop
  \/ StopRecognition
  \/ SaveOutput
  \/ Return

(* --------------------------- the four handlers ------------------------- *)
\* The handlers' console output is not part of the state.

\* Lines 69-71: interim results are ignored.
handle_recognizing(evt) ==
  UNCHANGED collector_vars

\* dict.get(key, default)
get(d, k, default) == IF k \in DOMAIN d THEN d[k] ELSE default

\* `text or ""`: None and the empty text both give the empty text.
OrEmpty(text) == IF text = NoneText \/ text = <<>> THEN <<>> ELSE text

\* handle_recognized without the `if tgt_text` test: every TranslatedSpeech
\* result is appended, an empty translation included.
handle_recognized_unguarded(evt) ==
  /\ IF evt.reason = "TranslatedSpeech"
       THEN /\ recognized_lines' = Append(recognized_lines, OrEmpty(evt.text))
            /\ translated_lines' =
                 Append(translated_lines, get(evt.translations, target_language, <<>>))
       ELSE UNCHANGED <<recognized_lines, translated_lines>>
  /\ done' = done

\* handle_recognized that treats a NoMatch result as the end of the stream.
handle_recognized_nomatch_ends(evt) ==
  /\ IF evt.reason = "TranslatedSpeech"
       THEN LET tgt_text == get(evt.translations, target_language, <<>>)
            IN IF tgt_text # <<>>
                 THEN /\ recognized_lines' = Append(recognized_lines, OrEmpty(evt.text))
                      /\ translated_lines' = Append(translated_lines, tgt_text)
                 ELSE UNCHANGED <<recognized_lines, translated_lines>>
       ELSE UNCHANGED <<recognized_lines, translated_lines>>
  /\ done' = (done \/ evt.reason = "NoMatch")

\* handle_recognized that keeps the source text of a recognized but
\* untranslated utterance.
handle_recognized_keeps_source(evt) ==
  /\ IF evt.reason = "TranslatedSpeech"
       THEN LET tgt_text == get(evt.translations, target_language, <<>>)
            IN IF tgt_text # <<>>
                 THEN /\ recognized_lines' = Append(recognized_lines, OrEmpty(evt.text))
                      /\ translated_lines' = Append(translated_lines, tgt_text)
                 ELSE UNCHANGED <<recognized_lines, translated_lines>>
       ELSE IF evt.reason = "RecognizedSpeech" /\ OrEmpty(evt.text) # <<>>
         THEN /\ recognized_lines' = Append(recognized_lines, evt.text)
              /\ translated_lines' = translated_lines
         ELSE UNCHANGED <<recognized_lines, translated_lines>>
  /\ done' = done

\* handle_recognized that records the source text only when there is one.
handle_recognized_skips_empty_source(evt) ==
  /\ IF evt.reason = "TranslatedSpeech"
       THEN LET src_text == OrEmpty(evt.text)
                tgt_text == get(evt.translations, target_language, <<>>)
            IN IF tgt_text # <<>>
                 THEN /\ recognized_lines' =
                           IF src_text # <<>> THEN Append(recognized_lines, src_text)
                           ELSE recognized_lines
                      /\ translated_lines' = Append(translated_lines, tgt_text)
                 ELSE UNCHANGED <<recognized_lines, translated_lines>>
       ELSE UNCHANGED <<recognized_lines, translated_lines>>
  /\ done' = done

\* Lines 73-90: a TranslatedSpeech result with a non-empty translation for
\* the target language appends its source text and its translation.
handle_recognized(evt) ==
  /\ IF evt.reason = "TranslatedSpeech"
       THEN LET src_text == OrEmpty(evt.text)
                tgt_text == get(evt.translations, target_language, <<>>)
            IN IF tgt_text # <<>>
                 THEN /\ recognized_lines' = Append(recognized_lines, src_text)
                      /\ translated_lines' = Append(translated_lines, tgt_text)
                 ELSE UNCHANGED <<recognized_lines, translated_lines>>
       ELSE UNCHANGED <<recognized_lines, translated_lines>>
  /\ done' = done

\* handle_canceled that sets the flag only for an error cancellation.
handle_canceled_error_only(evt) ==
  /\ done' = (done \/ evt.reason = "Error")
  /\ UNCHANGED <<translated_lines, recognized_lines>>

\* Lines 92-97: whatever the cancellation reason, the flag is set.
handle_canceled(evt) ==
  /\ done' = TRUE
  /\ UNCHANGED <<translated_lines, recognized_lines>>

\* Lines 99-101
handle_session_stopped(evt) ==
  /\ done' = TRUE
  /\ UNCHANGED <<translated_lines, recognized_lines>>

(* ------------------ the SDK session invoking the handlers -------------- *)

IsTerminal(e) == e.kind \in {"canceled", "session_stopped"}
Terminals == Len(SelectSeq(events, IsTerminal))
Delivered(kind) == \E i \in 1..Len(events) : events[i].kind = kind

\* A collaborator that honors its contract delivers the stream's events
\* first and then exactly one terminal event; one that does not may deliver
\* a terminal event early, and may deliver both a canceled and a
\* session_stopped event.  No callback runs before start or after stop.
MayDeliverResult ==
  /\ session = "running"
  /\ pending > 0
  /\ honors => Terminals = 0

MayDeliverTerminal(kind) ==
  /\ session = "running"
  /\ IF honors THEN pending = 0 /\ Terminals = 0 ELSE ~Delivered(kind)

\* Line 103: the recognizing signal calls handle_recognizing.
Recognizing ==
  /\ MayDeliverResult
  /\ "recognizing" \in DOMAIN handlers
  /\ \E evt \in {[kind |-> "recognizing", text |-> <<"h">>]} : handle_recognizing(evt)
  /\ pending' = pending - 1
  /\ UNCHANGED <<env, args, process, pc, error, config_vars, session, events, honors,
                 calls, files, result>>

\* Line 104: the recognized signal calls handle_recognized.
Recognized ==
  /\ MayDeliverResult
  /\ "recognized" \in DOMAIN handlers
  /\ \E evt \in RecognizedEvents :
       /\ handle_recognized(evt)
       /\ events' = Append(events, evt)
  /\ pending' = pending - 1
  /\ UNCHANGED <<env, args, process, pc, error, config_vars, session, honors,
                 calls, files, result>>

\* Line 105: the canceled signal calls handle_canceled.
Canceled ==
  /\ MayDeliverTerminal("canceled")
  /\ "canceled" \in DOMAIN handlers
  /\ \E r \in CancellationReasons :
       LET evt == [kind |-> "canceled", reason |-> r] IN
       /\ handle_canceled(evt)
       /\ events' = Append(events, evt)
  /\ UNCHANGED <<env, args, process, pc, error, config_vars, session, pending, honors,
                 calls, files, result>>

\* Line 106: the session_stopped signal calls handle_session_stopped.
SessionStopped ==
  /\ MayDeliverTerminal("session_stopped")
  /\ "session_stopped" \in DOMAIN handlers
  /\ LET evt == [kind |-> "session_stopped"] IN
       /\ handle_session_stopped(evt)
       /\ events' = Append(events, evt)
  /\ UNCHANGED <<env, args, process, pc, error, config_vars, session, pending, honors,
                 calls, files, result>>

Collaborator ==
  \/ Recognizing
  \/ Recognized
  \/ Canceled
  \/ SessionStopped

Next == Driver \/ Collaborator

Spec == Init /\ [][Next]_vars

\* The driver runs on the caller's thread, which the interpreter keeps
\* scheduling: a driver step that stays possible is eventually taken.  Nothing
\* is assumed of the collaborator.
LiveSpec == Spec /\ WF_vars(Driver)

\* The same with a collaborator that keeps its event-ordering contract.
ContractInit == Init /\ honors
ContractSpec == ContractInit /\ [][Next]_vars /\ WF_vars(Driver)

(* --------------------------- repeated calls ---------------------------- *)

\* Lines 7-12: the caller calls translate_wav again once a call has ended,
\* for the same recording and possibly another target language.  The
\* environment and the file system are what the former call left.  The new
\* call has no session yet and has made no calls; nothing else is reset here:
\* the former call's objects stay as they were until the new call creates
\* its own.
CallAgain ==
  /\ pc \in {"returned", "raised"}
  /\ invocation < MaxCalls
  /\ invocation' = invocation + 1
  /\ previous' = result
  /\ target_language' \in TargetLanguages
  /\ pc' = "getenv"
  /\ error' = None
  /\ result' = NoObject
  /\ calls' = <<>>
  /\ session' = "idle"
  /\ pending' = 0
  /\ events' = <<>>
  /\ UNCHANGED <<env, wav_path, source_language, output_txt, config_vars, collector_vars,
                 honors, files, argv, script>>

RepeatNext == Next \/ CallAgain

\* Calls that get as far as a session, with a collaborator that keeps its
\* contract.
RepeatInit ==
  /\ Init
  /\ honors
  /\ Truthy(env.key) /\ Truthy(env.region)
  /\ wav_path = "a.wav"
  /\ source_language = None

RepeatSpec == RepeatInit /\ [][RepeatNext]_vars

(* ------------------------- the script run ------------------------------ *)

\* The names bound in the module's namespace when line 138 is evaluated, with
\* what matters of their values: the interpreter's __name__ of a script run,
\* the five imports of lines 1-5 and the two functions of lines 7 and 123.
\* No builtin is called `name`.
ModuleGlobals ==
  [n \in {"__name__", "os", "sys", "argparse", "speechsdk", "datetime",
          "translate_wav", "main"} |->
     IF n = "__name__" THEN "__main__" ELSE "<object>"]

\* Line 138: the name the guard looks up and the string it compares it with.
GuardName == "name"
GuardValue == "main"

\* The command lines with a recording path and --to; --from-lang and --out
\* default to None (lines 125-128).
CommandLines ==
  [made : {TRUE}, wav : WavPaths, to : TargetLanguages,
   from_lang : SourceLanguages, out : OutputPaths]

\* The program has been started from the command line; nothing has run yet.
CliInit ==
  /\ env \in [key : KeyValues, region : RegionValues]
  /\ argv \in CommandLines
  /\ script = "not_run"
  /\ invocation = 0
  /\ previous = NoObject
  /\ wav_path = None /\ target_language = None
  /\ source_language = None /\ output_txt = None
  /\ honors \in BOOLEAN
  /\ pc = "not_called"
  /\ error = None
  /\ translation_config = NoObject
  /\ auto_langs = NoObject
  /\ audio_config = NoObject
  /\ recognizer = NoObject
  /\ handlers = [s \in {} |-> None]
  /\ translated_lines = <<>>
  /\ recognized_lines = <<>>
  /\ done = FALSE
  /\ session = "idle"
  /\ pending = 0
  /\ events = <<>>
  /\ calls = <<>>
  /\ files = InitialFiles
  /\ result = NoObject

\* Lines 123-136: main parses the command line and calls translate_wav once
\* with the four parsed values.
main ==
  /\ wav_path' = argv.wav
  /\ target_language' = argv.to
  /\ source_language' = argv.from_lang
  /\ output_txt' = argv.out
  /\ invocation' = invocation + 1
  /\ pc' = "getenv"

\* Lines 1-139: running the file executes the module body: the imports, the
\* two function definitions, then the guard of line 138.  Looking up a name
\* that is not bound raises NameError and ends the run; otherwise main is
\* called when the name's value equals the guard's string.
RunScript ==
  /\ script = "not_run"
  /\ IF GuardName \notin DOMAIN ModuleGlobals
       THEN /\ script' = "NameError"
            /\ UNCHANGED <<args, invocation, pc>>
       ELSE IF ModuleGlobals[GuardName] = GuardValue
         THEN /\ script' = "main"
              /\ main
         ELSE /\ script' = "exited"
              /\ UNCHANGED <<args, invocation, pc>>
  /\ UNCHANGED <<env, error, config_vars, collector_vars, sdk_vars, honors, calls, files,
                 result, argv, previous>>

CliNext == RunScript

CliSpec == CliInit /\ [][CliNext]_vars

(* ------------------------------ properties ----------------------------- *)

Called(c) == \E i \in 1..Len(calls) : calls[i] = c
CredentialsPresent == Truthy(env.key) /\ Truthy(env.region)
NothingConfigured ==
  /\ translation_config = NoObject
  /\ auto_langs = NoObject
  /\ audio_config = NoObject
  /\ recognizer = NoObject
  /\ DOMAIN handlers = {}
NothingStarted ==
  /\ session = "idle"
  /\ events = <<>>
  /\ ~Called("start_continuous_recognition")
  /\ translated_lines = <<>> /\ recognized_lines = <<>> /\ ~done
NothingWritten == files = InitialFiles /\ ~Called("open") /\ result = NoObject

\* A finalized event that carries a non-empty translation for the target.
Translated(e) ==
  /\ e.kind = "recognized"
  /\ e.reason = "TranslatedSpeech"
  /\ target_language \in DOMAIN e.translations
  /\ e.translations[target_language] # <<>>
SourceText(e) == IF e.text = NoneText THEN <<>> ELSE e.text
TranslatedTexts(evs) ==
  LET sel == SelectSeq(evs, Translated)
  IN [i \in 1..Len(sel) |-> sel[i].translations[target_language]]
SourceTexts(evs) ==
  LET sel == SelectSeq(evs, Translated)
  IN [i \in 1..Len(sel) |-> SourceText(sel[i])]

\* C1: when the session has ended, translated_lines is, in arrival order,
\* the translations of exactly the delivered finalized events that are
\* TranslatedSpeech with a non-empty translation for the target language, and
\* recognized_lines is the source texts of the same events.
C1_CollectedInArrivalOrder ==
  session = "stopped" =>
    /\ translated_lines = TranslatedTexts(events)
    /\ recognized_lines = SourceTexts(events)

\* C1 witness: a session ended after a TranslatedSpeech event without a
\* translation for the target was followed by one with a translation.
C1_Witness ==
  /\ session = "stopped"
  /\ \E i, j \in 1..Len(events) :
       /\ i < j
       /\ events[i].kind = "recognized" /\ events[i].reason = "TranslatedSpeech"
       /\ ~Translated(events[i])
       /\ Translated(events[j])

\* The events delivered before the first canceled event.
BeforeCancel ==
  LET k == CHOOSE i \in 1..Len(events) :
             /\ events[i].kind = "canceled"
             /\ \A j \in 1..(i - 1) : events[j].kind # "canceled"
  IN SubSeq(events, 1, k - 1)

\* C2: with a collaborator that keeps its ordering contract, a call that
\* returns after a cancellation returns exactly the segments of the finalized
\* events delivered before the cancellation and has called stop; and once a
\* cancellation is delivered the driver leaves the wait loop: stop is called
\* and translate_wav finishes.
C2_CancelEndsSession ==
  /\ [](honors /\ Delivered("canceled") /\ result # NoObject =>
          /\ result.translated_lines = TranslatedTexts(BeforeCancel)
          /\ result.recognized_lines = SourceTexts(BeforeCancel)
          /\ Called("stop_continuous_recognition"))
  /\ (Delivered("canceled") ~>
        (session = "stopped" /\ pc \in {"returned", "raised"}))

\* C2 witness: an error cancellation after two finalized events, and the call
\* has returned.
C2_Witness ==
  /\ honors
  /\ pc = "returned"
  /\ Len(events) = 3
  /\ events[3].kind = "canceled" /\ events[3].reason = "Error"
  /\ Len(result.translated_lines) > 0

\* C3: with a credential unset or empty, translate_wav raises the
\* configuration error and does nothing else: no file check, no configuration,
\* no session, no handler run, no file written.
C3_MissingCredentialsFailFirst ==
  ~CredentialsPresent =>
    /\ pc \in {"getenv", "raised"}
    /\ pc = "raised" => error = "RuntimeError"
    /\ \A i \in 1..Len(calls) : calls[i] = "getenv"
    /\ NothingConfigured
    /\ NothingStarted
    /\ NothingWritten

\* C3 witness: the key is set and the region is the empty string, and the
\* call has raised.
C3_Witness ==
  /\ env.key = "key" /\ env.region = ""
  /\ pc = "raised" /\ error = "RuntimeError"

\* C4: with both credentials present and a path that is not an existing
\* regular file, translate_wav raises the not-found error before anything is
\* configured, started or written.
C4_MissingFileFailsBeforeConfig ==
  CredentialsPresent /\ InitialFiles[wav_path].kind # "file" =>
    /\ pc \in {"getenv", "isfile", "raised"}
    /\ pc = "raised" => error = "FileNotFoundError"
    /\ \A i \in 1..Len(calls) : calls[i] \in {"getenv", "isfile"}
    /\ NothingConfigured
    /\ NothingStarted
    /\ NothingWritten

\* C4 witness: the path names a directory and the call has raised.
C4_Witness ==
  /\ CredentialsPresent
  /\ wav_path = "adir"
  /\ pc = "raised" /\ error = "FileNotFoundError"

\* Where line i starts in the joined text, counted from 0.
RECURSIVE LineOffset(_, _)
LineOffset(lines, i) ==
  IF i = 1 THEN 0 ELSE LineOffset(lines, i - 1) + Len(lines[i - 1]) + 1

\* data is the lines with exactly one newline between consecutive lines and
\* nothing after the last line.
NewlineJoined(data, lines) ==
  LET n == Len(lines) IN
  /\ Len(data) = IF n = 0 THEN 0 ELSE LineOffset(lines, n) + Len(lines[n])
  /\ \A i \in 1..n :
       /\ \A k \in 1..Len(lines[i]) : data[LineOffset(lines, i) + k] = lines[i][k]
       /\ i < n => data[LineOffset(lines, i) + Len(lines[i]) + 1] = NL

\* C5: when an output path is supplied and translate_wav has returned, the
\* output file holds exactly the returned translated lines joined by single
\* newlines, with no trailing newline and nothing of its former content.
C5_OutputIsNewlineJoined ==
  Truthy(output_txt) /\ pc = "returned" =>
    /\ files[output_txt].kind = "file"
    /\ NewlineJoined(files[output_txt].data, result.translated_lines)

\* C5 witness: two segments were written over a file that held other text.
C5_Witness ==
  /\ pc = "returned"
  /\ output_txt = "out.txt"
  /\ InitialFiles["out.txt"].data # <<>>
  /\ Len(result.translated_lines) = 2

\* C6: when no output path is supplied, no file is ever created or modified
\* and none is opened.
C6_NoOutputNoFile ==
  output_txt = None => files = InitialFiles /\ ~Called("open")

\* C6 witness: a call without output path returned segments after a
\* cancellation.
C6_Witness ==
  /\ output_txt = None
  /\ pc = "returned"
  /\ Delivered("canceled")
  /\ translated_lines # <<>>

\* C7: the flag is false when recognition is started; its value changes only
\* from false to true, only in a step of the canceled or the session-stopped
\* handler; and the driver is past the wait loop only with the flag true.
C7_FlagSetOnceByTerminalHandlers ==
  [][/\ pc = "start" => ~done
     /\ done' # done => ~done /\ done' /\ (Canceled \/ SessionStopped)
     /\ done => done'
     /\ pc' \in {"stop", "save", "return", "returned"} => done']_vars

\* C7 witness: the session-stopped handler has set the flag and the driver
\* has left the wait loop.
C7_Witness ==
  /\ done
  /\ Delivered("session_stopped") /\ ~Delivered("canceled")
  /\ pc = "stop"

\* C8: with a collaborator that delivers every event of the stream before the
\* terminal event, stop is called only after every event of the stream has
\* been handled.
C8_StopAfterLastSegment ==
  honors /\ (session = "stopped" \/ Called("stop_continuous_recognition")) =>
    /\ pending = 0
    /\ IsTerminal(events[Len(events)])

\* C8 witness: stop was called after two finalized events and the terminal
\* event.
C8_Witness ==
  /\ honors
  /\ Called("stop_continuous_recognition")
  /\ Len(events) = 3
  /\ Translated(events[2])

\* The driver's state of spec section 4.4.
DriverState ==
  CASE session = "idle" -> "idle"
    [] session = "running" /\ pc = "stop" -> "stopping"
    [] session = "running" -> "running"
    [] session = "stopped" -> "stopped"

\* C9: the driver moves only idle -> running -> stopping -> stopped; running
\* is entered by the start call, stopping only with the flag true, stopped by
\* the stop call; and the lists are written to the file or returned only in
\* the state stopped.
C9_DriverStateMachine ==
  [][/\ DriverState' # DriverState =>
          \/ /\ DriverState = "idle" /\ DriverState' = "running"
             /\ calls' = Append(calls, "start_continuous_recognition")
          \/ /\ DriverState = "running" /\ DriverState' = "stopping"
             /\ done
          \/ /\ DriverState = "stopping" /\ DriverState' = "stopped"
             /\ calls' = Append(calls, "stop_continuous_recognition")
     /\ files' # files \/ result' # result \/ Called("open")' =>
          DriverState = "stopped" /\ Called("stop_continuous_recognition")]_vars

\* C9 witness: the call went through all four states, wrote the file and
\* returned.
C9_Witness ==
  /\ DriverState = "stopped"
  /\ pc = "returned"
  /\ files # InitialFiles

\* C10: the recognizer's configuration has exactly one target language, the
\* requested one; without a source language the recognizer gets a non-empty
\* candidate list and no fixed recognition language; with a source language
\* code the fixed recognition language is that code and no candidate list is
\* passed.
C10_SessionConfiguration ==
  recognizer.made =>
    /\ recognizer.translation_config.target_languages = <<target_language>>
    /\ recognizer.audio_config = [made |-> TRUE, filename |-> wav_path]
    /\ source_language = None =>
         /\ recognizer.auto_detect_source_language_config.made
         /\ Len(recognizer.auto_detect_source_language_config.languages) > 0
         /\ recognizer.translation_config.speech_recognition_language = None
    /\ Truthy(source_language) =>
         /\ recognizer.translation_config.speech_recognition_language = source_language
         /\ recognizer.auto_detect_source_language_config = NoObject

\* C10 witness: a recognizer created for auto-detection.
C10_Witness ==
  /\ recognizer.made
  /\ source_language = None
  /\ recognizer.auto_detect_source_language_config.made

\* How often translate_wav made the call c.
RECURSIVE Count(_, _)
Count(seq, c) ==
  IF seq = <<>> THEN 0
  ELSE (IF seq[1] = c THEN 1 ELSE 0) + Count(Tail(seq), c)

\* The calls made from the start call on.
RECURSIVE FromStart(_)
FromStart(seq) ==
  IF seq = <<>> \/ seq[1] = "start_continuous_recognition" THEN seq
  ELSE FromStart(Tail(seq))

ErrorCanceled ==
  \E i \in 1..Len(events) : events[i].kind = "canceled" /\ events[i].reason = "Error"

\* C11: recognition is started at most once in a call, exactly once when the
\* call got as far as the wait loop; and a call that an error cancellation
\* ended goes on as after a clean end: stop, then the file write when an
\* output path is given, then the return of the collected lists.  It raises
\* nothing but what opening the output file raises.
C11_ErrorCancelNotRetried ==
  /\ Count(calls, "start_continuous_recognition") =
       IF pc \in {"wait", "stop", "save", "return", "returned"} \/ session # "idle"
         THEN 1 ELSE 0
  /\ ErrorCanceled =>
       /\ error \in {None, "OSError"}
       /\ error = "OSError" => Truthy(output_txt) /\ InitialFiles[output_txt].kind = "dir"
       /\ pc \in {"wait", "stop", "save", "return", "returned", "raised"}
       /\ pc = "returned" =>
            /\ FromStart(calls) =
                  <<"start_continuous_recognition", "stop_continuous_recognition">>
                  \o (IF Truthy(output_txt) THEN <<"open">> ELSE <<>>)
            /\ result.translated_lines = translated_lines
            /\ result.recognized_lines = recognized_lines

\* C11 witness: an error cancellation was the only event, and the call
\* returned empty lists.
C11_Witness ==
  /\ pc = "returned"
  /\ Len(events) = 1 /\ events[1].kind = "canceled" /\ events[1].reason = "Error"
  /\ result.translated_lines = <<>>

\* C12: the driver is past the wait loop only after a canceled or
\* session_stopped callback ran: until one has run, stop is not called and
\* nothing is written or returned.  With the driver scheduled fairly, once one
\* has run the driver calls stop and the call ends.
C12_WaitLoopNeedsTerminalEvent ==
  /\ [](Terminals = 0 =>
          /\ pc \notin {"stop", "save", "return", "returned"}
          /\ session # "stopped"
          /\ ~Called("stop_continuous_recognition")
          /\ ~Called("open") /\ files = InitialFiles /\ result = NoObject)
  /\ [](pc = "wait" => (ENABLED WaitLoop <=> Terminals > 0))
  /\ (Terminals > 0 ~> (session = "stopped" /\ pc \in {"returned", "raised"}))

\* C12 witness: the whole stream was delivered, no terminal event came, and
\* the driver is still in the wait loop.
C12_Witness ==
  /\ pc = "wait"
  /\ pending = 0
  /\ Len(events) > 0
  /\ Terminals = 0

\* C13: whatever an earlier call collected, the lists a call returns are
\* determined by its target language and the finalized events its own session
\* delivered: they are the translations, and the source texts, of the
\* translated events among them.  So two sessions with the same target
\* language and the same events return the same lists.
C13_ResultDeterminedByEvents ==
  result # NoObject =>
    /\ result.translated_lines = TranslatedTexts(events)
    /\ result.recognized_lines = SourceTexts(events)
    /\ Len(result.translated_lines) <= Len(events)

\* C13 witness: a call that followed one which returned segments returned
\* other lists.
C13_Witness ==
  /\ invocation = 2
  /\ previous # NoObject
  /\ previous.translated_lines # <<>>
  /\ result # NoObject
  /\ result.translated_lines # previous.translated_lines

\* The lines of a text: its pieces between newlines; the empty text has none.
RECURSIVE SplitLines(_)
SplitLines(data) ==
  IF data = <<>> THEN <<>>
  ELSE IF \E k \in 1..Len(data) : data[k] = NL
    THEN LET k == CHOOSE k \in 1..Len(data) :
                    data[k] = NL /\ \A j \in 1..(k - 1) : data[j] # NL
         IN <<SubSeq(data, 1, k - 1)>> \o
            (IF k = Len(data) THEN <<<<>>>> ELSE SplitLines(SubSeq(data, k + 1, Len(data))))
    ELSE <<data>>

\* C14: whether or not the collaborator keeps its ordering contract, no step
\* changes the accumulators once stop has been called; the accumulators change
\* only while the session runs, by one appended segment at a time; and when
\* the call has returned, the returned translated_lines are the accumulated
\* ones and, with an output path, the lines of the output file are the same
\* sequence.
C14_NoMutationAfterStop ==
  /\ [][/\ Called("stop_continuous_recognition") =>
             UNCHANGED <<translated_lines, recognized_lines>>
        /\ translated_lines' # translated_lines =>
             /\ session = "running"
             /\ Len(translated_lines') = Len(translated_lines) + 1
             /\ SubSeq(translated_lines', 1, Len(translated_lines)) = translated_lines]_vars
  /\ [](pc = "returned" =>
          /\ result.translated_lines = translated_lines
          /\ Truthy(output_txt) =>
               SplitLines(files[output_txt].data) = result.translated_lines)

\* C14 witness: a collaborator delivered a translated segment after the
\* terminal event, before the driver called stop, and the call wrote the file
\* and returned.
C14_Witness ==
  /\ ~honors
  /\ pc = "returned"
  /\ Truthy(output_txt)
  /\ \E i, j \in 1..Len(events) :
       i < j /\ IsTerminal(events[i]) /\ Translated(events[j])

\* The finalized event a Recognized step has just delivered.
LastEvent == events[Len(events)]

\* A finalized event of one of the kinds that collect nothing: recognized but
\* untranslated, no match, or translated with an empty translation for the
\* target.
CollectsNothing(e) ==
  \/ e.reason = "RecognizedSpeech"
  \/ e.reason = "NoMatch"
  \/ /\ e.reason = "TranslatedSpeech"
     /\ target_language \in DOMAIN e.translations
     /\ e.translations[target_language] = <<>>

\* C15: a step that delivers an interim event, or a finalized event that is
\* recognized but untranslated, a no-match, or translated with an empty
\* translation for the target, leaves translated_lines, recognized_lines and
\* the flag as they were.
C15_OtherEventsChangeNothing ==
  [][/\ Recognizing => UNCHANGED <<translated_lines, recognized_lines, done>>
     /\ Recognized /\ CollectsNothing(LastEvent') =>
          UNCHANGED <<translated_lines, recognized_lines, done>>]_vars

\* C15 witness: a recognized but untranslated utterance with a source text was
\* delivered and recognized_lines is still empty.
C15_Witness ==
  /\ Len(events) = 1
  /\ events[1].kind = "recognized"
  /\ events[1].reason = "RecognizedSpeech"
  /\ events[1].text = <<"h", "i">>
  /\ recognized_lines = <<>> /\ translated_lines = <<>> /\ ~done

C16_MainCallsTranslateWavOnce ==
  script # "not_run" =>
    /\ script = "main"
    /\ invocation = 1
    /\ pc # "not_called"
    /\ wav_path = argv.wav
    /\ target_language = argv.to
    /\ source_language = argv.from_lang
    /\ output_txt = argv.out

====
